---- MODULE Spec2Model ----
(***************************************************************************)
(* Adaptive sampling processor                                             *)
(* (plugin/sampling/strategystore/adaptive/processor.go).                  *)
(*                                                                         *)
(* Units.  Probabilities are integers in units of 1e-5 (100000 = 1.0), so  *)
(* that the 4-decimal rendering of a probability (truncateFloat) drops a   *)
(* digit.  QPS values are integers in units of 1e-3 spans per second.      *)
(* Times and durations are integers in seconds.                            *)
(*                                                                         *)
(* Maps (Go map[string]...) are functions whose DOMAIN is the key set.     *)
(* The embedded sync.RWMutex is rwReaders (the tasks holding it shared);   *)
(* every exclusive section of the code contains no call that can block,    *)
(* so it is one atomic action guarded by rwReaders = {}.                   *)
(***************************************************************************)
EXTENDS Integers, Sequences, FiniteSets, TLC

VARIABLES
  started,            \* Start has been called on processor Self
  stopped,            \* [p]: Stop has closed the stop channels of processor p
  leader,             \* [p]: the embedded atomic.Bool of processor p
  lockPc,             \* [p]: position of runAcquireLockLoop of processor p
  lockInterval,       \* [p]: duration the loop's current ticker was created with (0: none yet)
  lastAcquire,        \* [p]: what the last completed Acquire call returned
  lockHolder,         \* lock service: holder of the lease on sampling_lock
  now,                \* wall clock, seconds
  probabilities,      \* p.probabilities
  qps,                \* p.qps
  throughputs,        \* p.throughputs, head first
  strategyResponses,  \* p.strategyResponses
  serviceCache,       \* p.serviceCache, head first
  rwReaders,          \* tasks holding p.RWMutex shared
  calcPc,             \* position of runCalculationLoop
  lastCheckedTime,    \* runCalculationLoop: lastCheckedTime
  calcStartTime,      \* runCalculationLoop: startTime of the tick's query
  calcEndTime,        \* runCalculationLoop / initializeThroughput: endTime
  calcErr,            \* runCalculationLoop: err of the last GetThroughput call of a tick
  initIdx,            \* initializeThroughput: i
  retProbabilities,   \* runCalculationLoop: probabilities returned by calculateProbabilitiesAndQPS
  retQPS,             \* runCalculationLoop: qps returned by calculateProbabilitiesAndQPS
  calcStrategies,     \* generateStrategyResponses called by the calculation loop: strategies
  updPc,              \* position of runUpdateProbabilitiesLoop
  updProbabilities,   \* loadProbabilities called by the refresh loop: probabilities
  updLeaderAtRead,    \* the leader flag when that GetLatestProbabilities call returned
  updStrategies,      \* generateStrategyResponses called by the refresh loop: strategies
  savePc,             \* [k]: position of the k-th saveProbabilitiesAndQPS goroutine
  saveArgs,           \* [k]: the (probabilities, qps) it passed to InsertProbabilitiesAndQPS
  ProcessorConfig,    \* the config NewProcessor is called with, embedded in the processor
  newProcessorErr,    \* the error NewProcessor returned ("pending": it has not returned)
  publishedPairs,     \* history: the (probabilities, qps) pairs the calculation loop has assigned
  regenerated         \* history: a generateStrategyResponses call has read p.probabilities
                      \* since the map was last replaced

vars == <<started, stopped, leader, lockPc, lockInterval, lastAcquire, lockHolder, now,
          probabilities, qps, throughputs, strategyResponses, serviceCache, rwReaders,
          calcPc, lastCheckedTime, calcStartTime, calcEndTime, calcErr, initIdx,
          retProbabilities, retQPS, calcStrategies,
          updPc, updProbabilities, updLeaderAtRead, updStrategies,
          savePc, saveArgs, ProcessorConfig, newProcessorErr, publishedPairs,
          regenerated>>

lockVars == <<leader, lockPc, lockInterval, lastAcquire, lockHolder>>
dataVars == <<probabilities, qps, throughputs, strategyResponses, serviceCache>>
calcVars == <<calcPc, lastCheckedTime, calcStartTime, calcEndTime, calcErr, initIdx,
              retProbabilities, retQPS, calcStrategies>>
updVars == <<updPc, updProbabilities, updLeaderAtRead, updStrategies>>
saveVars == <<savePc, saveArgs>>

(***************************************************************************)
(* Bounds of the model.                                                    *)
(***************************************************************************)
MaxTime == 2      \* the calculation ticker fires until the clock reads this
MaxSaves == 1     \* most save goroutines alive at once

(***************************************************************************)
(* Program constants and the ProcessorConfig the processor is built with.  *)
(***************************************************************************)
maxSamplingProbability == 100000
serviceCacheSize == 25
FloatEqualsInverseTolerance == 100000   \* 1e-10 is 1/100000 of the unit 1e-5

\* The configuration of the processors of Spec and SpecFleet
BaseConfig ==
  [CalculationInterval |-> 1,
   LookbackInterval |-> 2,
   LookbackQPSCount |-> 2,
   Delay |-> 1,
   LeaderLeaseRefreshInterval |-> 1,
   FollowerLeaseRefreshInterval |-> 2,
   MinSamplingProbability |-> 100,
   DefaultSamplingProbability |-> 100,
   TargetQPS |-> 1000,
   QPSEquivalenceThreshold |-> 10]

CalculationInterval == ProcessorConfig.CalculationInterval
LookbackInterval == ProcessorConfig.LookbackInterval
LookbackQPSCount == ProcessorConfig.LookbackQPSCount
Delay == ProcessorConfig.Delay
LeaderLeaseRefreshInterval == ProcessorConfig.LeaderLeaseRefreshInterval
FollowerLeaseRefreshInterval == ProcessorConfig.FollowerLeaseRefreshInterval
MinSamplingProbability == ProcessorConfig.MinSamplingProbability
DefaultSamplingProbability == ProcessorConfig.DefaultSamplingProbability
TargetQPS == ProcessorConfig.TargetQPS
QPSEquivalenceThreshold == ProcessorConfig.QPSEquivalenceThreshold


Self == "p1"
Procs == {"p1", "p2"}
NoHolder == "none"
Services == {"A"}
Operations == {"x", "y"}

EmptyMap == [k \in {} |-> 0]

Abs(a) == IF a < 0 THEN 0 - a ELSE a
Min(a, b) == IF a < b THEN a ELSE b
Max(a, b) == IF a > b THEN a ELSE b

\* Go's integer division of two Durations: the quotient truncated toward zero
quo(a, b) ==
  IF (a < 0) = (b < 0) THEN Abs(a) \div Abs(b) ELSE 0 - (Abs(a) \div Abs(b))

\* NewProcessor: buckets := int(config.LookbackInterval / config.CalculationInterval)
buckets == quo(LookbackInterval, CalculationInterval)

\* m[k] = v on a Go map
MapPut(m, k, v) == [x \in (DOMAIN m) \cup {k} |-> IF x = k THEN v ELSE m[x]]

(***************************************************************************)
(* Collaborators whose code is outside processor.go.                       *)
(***************************************************************************)
\* truncateFloat: the 4-decimal rendering of a probability, as the samplers
\* stamp it into Throughput.Probabilities (here: the number of 1e-4 units).
truncateFloat(v) == v \div 10

\* weightsCache.getWeights(n): exponentially decaying weights, most recent
\* first; the weighted mean divides by their sum (normalisation).
RECURSIVE Pow2(_)
Pow2(n) == IF n = 0 THEN 1 ELSE 2 * Pow2(n - 1)

getWeights(n) == [i \in 1..n |-> Pow2(n - i)]

RECURSIVE SumSeq(_)
SumSeq(s) == IF s = <<>> THEN 0 ELSE Head(s) + SumSeq(Tail(s))

\* calculationstrategy.PercentageIncreaseCappedCalculator(1.0).Calculate:
\* the corrective probability old * target / qps, held within a factor of
\* two of the old probability in either direction.
Calculate(targetQPS, curQPS, prevProbability) ==
  LET newProbability == (prevProbability * targetQPS) \div curQPS
  IN  Max(prevProbability \div 2, Min(2 * prevProbability, newProbability))

\* samplingCache.Get(service, operation): the entry, or nil
cacheHas(cache, service, operation) ==
  service \in DOMAIN cache /\ operation \in DOMAIN cache[service]

(***************************************************************************)
(* Pure functions of processor.go.                                         *)
(***************************************************************************)
\* math.Abs(a-b) < 1e-10; a difference of a whole unit is decided before
\* the product is formed
floatEquals(a, b) == Abs(a - b) < 1 /\ Abs(a - b) * FloatEqualsInverseTolerance < 1

combineProbabilities(p1, p2) == p1 \cup p2

\* aggregateThroughput: one loop iteration, then the loop
aggregateRow(agg, row) ==
  LET svcMap == IF row.Service \in DOMAIN agg THEN agg[row.Service] ELSE EmptyMap
      merged == IF row.Operation \in DOMAIN svcMap
                THEN [Count |-> svcMap[row.Operation].Count + row.Count,
                      Probabilities |-> combineProbabilities(
                                          svcMap[row.Operation].Probabilities,
                                          row.Probabilities)]
                ELSE [Count |-> row.Count, Probabilities |-> row.Probabilities]
  IN  MapPut(agg, row.Service, MapPut(svcMap, row.Operation, merged))

RECURSIVE aggregateFrom(_, _)
aggregateFrom(agg, rows) ==
  IF rows = <<>> THEN agg ELSE aggregateFrom(aggregateRow(agg, Head(rows)), Tail(rows))

aggregateThroughput(rows) == aggregateFrom(EmptyMap, rows)

\* Variant of prependThroughputBucket that forgets to truncate the tail
prependWithoutTruncation(ring, bucket) == <<bucket>> \o ring

prependThroughputBucket(ring, bucket) ==
  LET all == <<bucket>> \o ring
  IN  IF Len(all) > buckets THEN SubSeq(all, 1, buckets) ELSE all

prependServiceCache(cache) ==
  LET all == <<EmptyMap>> \o cache
  IN  IF Len(all) > serviceCacheSize THEN SubSeq(all, 1, serviceCacheSize) ELSE all

calculateQPS(count, interval) == (count * 1000) \div interval

\* generateOperationQPS: the body of the loop over p.throughputs, then the loop
operationQPSAdd(acc, bucket) ==
  LET svcs == (DOMAIN acc) \cup (DOMAIN bucket.throughput)
      old(svc, op) == IF svc \in DOMAIN acc /\ op \in DOMAIN acc[svc]
                      THEN acc[svc][op] ELSE <<>>
      opsOf(svc) == (IF svc \in DOMAIN acc THEN DOMAIN acc[svc] ELSE {})
                    \cup (IF svc \in DOMAIN bucket.throughput
                          THEN DOMAIN bucket.throughput[svc] ELSE {})
  IN  [svc \in svcs |->
        [op \in opsOf(svc) |->
          IF svc \in DOMAIN bucket.throughput /\ op \in DOMAIN bucket.throughput[svc]
             /\ Len(old(svc, op)) < LookbackQPSCount
          THEN Append(old(svc, op),
                      calculateQPS(bucket.throughput[svc][op].Count, bucket.interval))
          ELSE old(svc, op)]]

RECURSIVE operationQPSFrom(_, _)
operationQPSFrom(acc, ring) ==
  IF ring = <<>> THEN acc ELSE operationQPSFrom(operationQPSAdd(acc, Head(ring)), Tail(ring))

generateOperationQPS(ring) == operationQPSFrom(EmptyMap, ring)

calculateWeightedQPS(allQPS) ==
  IF Len(allQPS) = 0 THEN 0
  ELSE LET weights == getWeights(Len(allQPS))
       IN  SumSeq([i \in 1..Len(allQPS) |-> allQPS[i] * weights[i]]) \div SumSeq(weights)

\* Variant of usingAdaptiveSampling in which an operation that has throughput
\* but whose probability was not seen falls through to the history lookup
usingAdaptiveSamplingFallingThrough(probability, service, operation, throughput, cache) ==
  IF floatEquals(probability, DefaultSamplingProbability) THEN TRUE
  ELSE IF service \in DOMAIN throughput /\ operation \in DOMAIN throughput[service]
          /\ truncateFloat(probability) \in throughput[service][operation].Probabilities
  THEN TRUE
  ELSE IF Len(cache) > 1 /\ cacheHas(cache[2], service, operation)
  THEN cache[2][service][operation].usingAdapative
       /\ cache[2][service][operation].probability # DefaultSamplingProbability
  ELSE FALSE

\* Variant of usingAdaptiveSampling that never consults the history
usingAdaptiveSamplingWithoutHistory(probability, service, operation, throughput, cache) ==
  IF floatEquals(probability, DefaultSamplingProbability) THEN TRUE
  ELSE IF service \in DOMAIN throughput /\ operation \in DOMAIN throughput[service]
  THEN truncateFloat(probability) \in throughput[service][operation].Probabilities
  ELSE FALSE

usingAdaptiveSampling(probability, service, operation, throughput, cache) ==
  IF floatEquals(probability, DefaultSamplingProbability) THEN TRUE
  ELSE IF service \in DOMAIN throughput /\ operation \in DOMAIN throughput[service]
  THEN truncateFloat(probability) \in throughput[service][operation].Probabilities
  ELSE IF Len(cache) > 1 /\ cacheHas(cache[2], service, operation)
  THEN cache[2][service][operation].usingAdapative
       /\ cache[2][service][operation].probability # DefaultSamplingProbability
  ELSE FALSE

\* calculateProbability: the oldProbability it reads under the shared lock
oldProbabilityOf(probs, service, operation) ==
  IF service \in DOMAIN probs /\ operation \in DOMAIN probs[service]
  THEN probs[service][operation] ELSE DefaultSamplingProbability

\* calculateProbability: the entry it stores in p.serviceCache[0]
calculateProbabilityEntry(probs, ring, cache, service, operation) ==
  LET oldProbability == oldProbabilityOf(probs, service, operation)
  IN  [probability |-> oldProbability,
       usingAdapative |-> usingAdaptiveSampling(oldProbability, service, operation,
                                                ring[1].throughput, cache)]

\* Variant of calculateProbability without the doubling at zero qps
calculateProbabilityWithoutRampUp(probs, ring, cache, service, operation, q) ==
  LET oldProbability == oldProbabilityOf(probs, service, operation)
      adaptive == usingAdaptiveSampling(oldProbability, service, operation,
                                        ring[1].throughput, cache)
      newProbability == IF floatEquals(q, 0) THEN oldProbability
                        ELSE Calculate(TargetQPS, q, oldProbability)
  IN  IF Abs(q - TargetQPS) < QPSEquivalenceThreshold \/ ~adaptive
      THEN oldProbability
      ELSE Min(maxSamplingProbability, Max(MinSamplingProbability, newProbability))

\* Variant of calculateProbability without the equivalence short circuit
calculateProbabilityWithoutShortCircuit(probs, ring, cache, service, operation, q) ==
  LET oldProbability == oldProbabilityOf(probs, service, operation)
      adaptive == usingAdaptiveSampling(oldProbability, service, operation,
                                        ring[1].throughput, cache)
      newProbability == IF floatEquals(q, 0) THEN oldProbability * 2
                        ELSE Calculate(TargetQPS, q, oldProbability)
  IN  IF ~adaptive
      THEN oldProbability
      ELSE Min(maxSamplingProbability, Max(MinSamplingProbability, newProbability))

\* calculateProbability: the probability it returns
calculateProbability(probs, ring, cache, service, operation, q) ==
  LET oldProbability == oldProbabilityOf(probs, service, operation)
      adaptive == usingAdaptiveSampling(oldProbability, service, operation,
                                        ring[1].throughput, cache)
      newProbability == IF floatEquals(q, 0) THEN oldProbability * 2
                        ELSE Calculate(TargetQPS, q, oldProbability)
  IN  IF Abs(q - TargetQPS) < QPSEquivalenceThreshold \/ ~adaptive
      THEN oldProbability
      ELSE Min(maxSamplingProbability, Max(MinSamplingProbability, newProbability))

\* calculateProbabilitiesAndQPS: the three things it produces, given the
\* service cache already prepended to
calculatedQPS(ring) ==
  LET svcOpQPS == generateOperationQPS(ring)
  IN  [svc \in DOMAIN svcOpQPS |->
        [op \in DOMAIN svcOpQPS[svc] |-> calculateWeightedQPS(svcOpQPS[svc][op])]]

calculatedProbabilities(probs, ring, cache) ==
  LET avg == calculatedQPS(ring)
  IN  [svc \in DOMAIN avg |->
        [op \in DOMAIN avg[svc] |->
          calculateProbability(probs, ring, cache, svc, op, avg[svc][op])]]

calculatedServiceCache(probs, ring, cache) ==
  LET avg == calculatedQPS(ring)
      snapshot == [svc \in DOMAIN avg |->
                    [op \in DOMAIN avg[svc] |->
                      calculateProbabilityEntry(probs, ring, cache, svc, op)]]
  IN  [cache EXCEPT ![1] = snapshot]

\* generateStrategyResponses: the strategies built from p.probabilities
strategiesOf(probs) ==
  [svc \in DOMAIN probs |->
    [DefaultSamplingProbability |-> DefaultSamplingProbability,
     PerOperationStrategies |-> probs[svc]]]

(***************************************************************************)
(* What the store and the lock service may answer.                         *)
(***************************************************************************)
Row(svc, op, count, seen) ==
  [Service |-> svc, Operation |-> op, Count |-> count, Probabilities |-> seen]

\* storage.GetThroughput: the rows it may return without error
ThroughputResponses ==
  { <<>>,
    <<Row("A", "x", 0, {})>>,
    <<Row("A", "x", 5, {}), Row("A", "x", 5, {20})>> }

\* storage.GetLatestProbabilities: the maps it may return without error.
\* The store holds what any collector of the fleet, of any configuration,
\* has written.
StoredProbabilities ==
  { [svc \in {"A"} |-> [op \in {"x", "y"} |-> IF op = "x" THEN 200 ELSE 50]] }

\* (throughput, err) as GetThroughput returns them
ThroughputResults ==
  {[err |-> FALSE, rows |-> r] : r \in ThroughputResponses}
  \cup {[err |-> TRUE, rows |-> <<>>]}

\* (probabilities, err) as GetLatestProbabilities returns them
ProbabilitiesResults ==
  {[err |-> FALSE, probabilities |-> m] : m \in StoredProbabilities}
  \cup {[err |-> TRUE, probabilities |-> EmptyMap]}

\* lock.Acquire(samplingLock) called by processor p: a lease on the lock is
\* granted (or renewed) unless another processor holds an unexpired lease;
\* the call may also fail.
AcquireResults(p) ==
  { [acquired |-> lockHolder \in {NoHolder, p}, err |-> FALSE],
    [acquired |-> FALSE, err |-> TRUE] }

NoAcquire == [acquired |-> FALSE, err |-> FALSE, none |-> TRUE]

(***************************************************************************)
(* Leader election: runAcquireLockLoop and acquireLock.                    *)
(***************************************************************************)
\* Variant of acquireLockFlag that stores the result even when Acquire failed
acquireLockFlagIgnoringErr(flag, res) == res.acquired

\* acquireLock: the flag after the Acquire call has returned
acquireLockFlag(flag, res) == IF ~res.err THEN res.acquired ELSE flag

\* acquireLock: the interval it returns, given the flag it reads back
acquireLockInterval(flag) ==
  IF flag THEN LeaderLeaseRefreshInterval ELSE FollowerLeaseRefreshInterval

\* runAcquireLockLoop: the jitter sleep ends and acquireLock is entered
LockJitterDone(p) ==
  /\ lockPc[p] = "jitter"
  /\ lockPc' = [lockPc EXCEPT ![p] = "acquiring"]
  /\ UNCHANGED <<ProcessorConfig, newProcessorErr, publishedPairs, regenerated,
                 started, stopped, leader, lockInterval, lastAcquire, lockHolder, now,
                 dataVars, rwReaders, calcVars, updVars, saveVars>>

\* acquireLock: lock.Acquire returns; setLeader; ticker := NewTicker(interval)
AcquireReturn(p) ==
  /\ lockPc[p] = "acquiring"
  /\ \E res \in AcquireResults(p) :
       /\ lastAcquire' = [lastAcquire EXCEPT ![p] = res]
       /\ lockHolder' = IF ~res.err /\ res.acquired THEN p ELSE lockHolder
       /\ leader' = [leader EXCEPT ![p] = acquireLockFlag(leader[p], res)]
       /\ lockInterval' = [lockInterval EXCEPT ![p] = acquireLockInterval(leader'[p])]
  /\ lockPc' = [lockPc EXCEPT ![p] = "waitTick"]
  /\ UNCHANGED <<ProcessorConfig, newProcessorErr, publishedPairs, regenerated,
                 started, stopped, now, dataVars, rwReaders, calcVars, updVars, saveVars>>

\* runAcquireLockLoop: case <-ticker.C
LockTick(p) ==
  /\ lockPc[p] = "waitTick"
  /\ lockPc' = [lockPc EXCEPT ![p] = "acquiring"]
  /\ lastAcquire' = [lastAcquire EXCEPT ![p] = NoAcquire]
  /\ UNCHANGED <<ProcessorConfig, newProcessorErr, publishedPairs, regenerated,
                 started, stopped, leader, lockInterval, lockHolder, now,
                 dataVars, rwReaders, calcVars, updVars, saveVars>>

\* runAcquireLockLoop: case <-p.acquireLockStop
LockStop(p) ==
  /\ lockPc[p] = "waitTick"
  /\ stopped[p]
  /\ lockPc' = [lockPc EXCEPT ![p] = "done"]
  /\ UNCHANGED <<ProcessorConfig, newProcessorErr, publishedPairs, regenerated,
                 started, stopped, leader, lockInterval, lastAcquire, lockHolder, now,
                 dataVars, rwReaders, calcVars, updVars, saveVars>>

\* lock service: the holder's lease runs out before it is renewed
LeaseExpire ==
  /\ lockHolder # NoHolder
  /\ lockHolder' = NoHolder
  /\ UNCHANGED <<ProcessorConfig, newProcessorErr, publishedPairs, regenerated,
                 started, stopped, leader, lockPc, lockInterval, lastAcquire, now,
                 dataVars, rwReaders, calcVars, updVars, saveVars>>

\* lock service: a collector other than Self is granted the free lock
PeerAcquire ==
  /\ lockHolder = NoHolder
  /\ lockHolder' = "p2"
  /\ UNCHANGED <<ProcessorConfig, newProcessorErr, publishedPairs, regenerated,
                 started, stopped, leader, lockPc, lockInterval, lastAcquire, now,
                 dataVars, rwReaders, calcVars, updVars, saveVars>>

(***************************************************************************)
(* Start and Stop.                                                         *)
(***************************************************************************)
\* loadProbabilities: p.probabilities after the call, given the store's answer
loadProbabilities(probs, res) == IF res.err THEN probs ELSE res.probabilities

Start ==
  /\ ~started
  /\ started' = TRUE
  /\ leader' = [leader EXCEPT ![Self] = FALSE]
  /\ \E res \in ProbabilitiesResults :
       probabilities' = loadProbabilities(probabilities, res)
  /\ strategyResponses' = strategiesOf(probabilities')
  /\ lockPc' = [lockPc EXCEPT ![Self] = "jitter"]
  /\ calcPc' = "init"
  /\ lastCheckedTime' = now - Delay
  /\ calcEndTime' = now - Delay
  /\ initIdx' = 0
  /\ updPc' = "jitter"
  /\ regenerated' = TRUE
  /\ UNCHANGED <<ProcessorConfig, newProcessorErr, publishedPairs,
                 stopped, lockInterval, lastAcquire, lockHolder, now, qps, throughputs,
                 serviceCache, rwReaders, calcStartTime, calcErr, retProbabilities,
                 retQPS, calcStrategies, updProbabilities, updLeaderAtRead,
                 updStrategies, saveVars>>

Stop(p) ==
  /\ started
  /\ ~stopped[p]
  /\ stopped' = [stopped EXCEPT ![p] = TRUE]
  /\ UNCHANGED <<ProcessorConfig, newProcessorErr, publishedPairs, regenerated,
                 started, lockVars, now, dataVars, rwReaders, calcVars, updVars, saveVars>>

(***************************************************************************)
(* The calculation loop: runCalculationLoop.                               *)
(***************************************************************************)
Bucket(throughput, interval, endTime) ==
  [throughput |-> throughput, interval |-> interval, endTime |-> endTime]

\* initializeThroughput: one iteration of its loop (one GetThroughput call)
InitializeThroughputStep ==
  /\ calcPc = "init"
  /\ \E res \in ThroughputResults :
       IF res.err \/ Len(res.rows) = 0
       THEN /\ calcPc' = "waitTick"
            /\ UNCHANGED <<throughputs, calcEndTime, initIdx>>
       ELSE /\ throughputs' = Append(throughputs,
                                     Bucket(aggregateThroughput(res.rows),
                                            CalculationInterval, calcEndTime))
            /\ calcEndTime' = calcEndTime - CalculationInterval
            /\ initIdx' = initIdx + 1
            /\ calcPc' = IF initIdx + 1 < buckets THEN "init" ELSE "waitTick"
  /\ UNCHANGED <<ProcessorConfig, newProcessorErr, publishedPairs, regenerated,
                 started, stopped, lockVars, now, probabilities, qps, strategyResponses,
                 serviceCache, rwReaders, lastCheckedTime, calcStartTime, calcErr,
                 retProbabilities, retQPS, calcStrategies, updVars, saveVars>>

\* case <-ticker.C: the ticker fires, CalculationInterval after the previous
\* tick; endTime and startTime are set and GetThroughput is called
CalcTick ==
  /\ calcPc = "waitTick"
  /\ now + CalculationInterval <= MaxTime
  /\ now' = now + CalculationInterval
  /\ calcEndTime' = now' - Delay
  /\ calcStartTime' = lastCheckedTime
  /\ calcPc' = "getThroughput"
  /\ UNCHANGED <<ProcessorConfig, newProcessorErr, publishedPairs, regenerated,
                 started, stopped, lockVars, dataVars, rwReaders, lastCheckedTime,
                 calcErr, initIdx, retProbabilities, retQPS, calcStrategies, updVars,
                 saveVars>>

\* Variant of nextLastCheckedTime that advances even when the fetch failed
nextLastCheckedTimeAlways(last, endTime, res) == endTime

\* runCalculationLoop: lastCheckedTime after GetThroughput has returned
nextLastCheckedTime(last, endTime, res) == IF res.err THEN last ELSE endTime

\* runCalculationLoop: p.throughputs after GetThroughput has returned
nextThroughputs(ring, startTime, endTime, res) ==
  IF res.err THEN ring
  ELSE prependThroughputBucket(ring, Bucket(aggregateThroughput(res.rows),
                                            endTime - startTime, endTime))

\* Variant of tickCalculates that does not look at the leader flag
tickCalculatesAsFollower(flag, res) == ~res.err

\* runCalculationLoop: whether the tick goes on to calculate
tickCalculates(flag, res) == ~res.err /\ flag

\* GetThroughput returns one of results: on error the tick ends; otherwise
\* the bucket is prepended, lastCheckedTime advances and the leader flag is read
GetThroughputReturnFrom(results) ==
  /\ calcPc = "getThroughput"
  /\ \E res \in results :
       /\ throughputs' = nextThroughputs(throughputs, calcStartTime, calcEndTime, res)
       /\ lastCheckedTime' = nextLastCheckedTime(lastCheckedTime, calcEndTime, res)
       /\ calcPc' = IF tickCalculates(leader[Self], res) THEN "calculate" ELSE "waitTick"
       /\ calcErr' = res.err
  /\ UNCHANGED <<ProcessorConfig, newProcessorErr, publishedPairs, regenerated,
                 started, stopped, lockVars, now, probabilities, qps, strategyResponses,
                 serviceCache, rwReaders, calcStartTime, calcEndTime, initIdx,
                 retProbabilities, retQPS, calcStrategies, updVars, saveVars>>

GetThroughputReturn == GetThroughputReturnFrom(ThroughputResults)

\* probabilities, qps := p.calculateProbabilitiesAndQPS()
Calculate_ ==
  /\ calcPc = "calculate"
  /\ LET cache == prependServiceCache(serviceCache)
     IN  /\ retProbabilities' = calculatedProbabilities(probabilities, throughputs, cache)
         /\ retQPS' = calculatedQPS(throughputs)
         /\ serviceCache' = calculatedServiceCache(probabilities, throughputs, cache)
  /\ calcPc' = "publish"
  /\ UNCHANGED <<ProcessorConfig, newProcessorErr, publishedPairs, regenerated,
                 started, stopped, lockVars, now, probabilities, qps, throughputs,
                 strategyResponses, rwReaders, lastCheckedTime, calcStartTime,
                 calcEndTime, calcErr, initIdx, calcStrategies, updVars, saveVars>>

\* p.Lock(); p.probabilities = probabilities; p.qps = qps; p.Unlock()
Publish ==
  /\ calcPc = "publish"
  /\ rwReaders = {}
  /\ probabilities' = retProbabilities
  /\ qps' = retQPS
  /\ publishedPairs' =
       publishedPairs \cup {[probabilities |-> retProbabilities, qps |-> retQPS]}
  /\ retProbabilities' = EmptyMap
  /\ retQPS' = EmptyMap
  /\ calcPc' = "genRead"
  /\ regenerated' = FALSE
  /\ UNCHANGED <<ProcessorConfig, newProcessorErr,
                 started, stopped, lockVars, now, throughputs, strategyResponses,
                 serviceCache, rwReaders, lastCheckedTime, calcStartTime, calcEndTime,
                 calcErr, initIdx, calcStrategies, updVars, saveVars>>

\* generateStrategyResponses: the shared section, which builds strategies
CalcGenRead ==
  /\ calcPc = "genRead"
  /\ calcStrategies' = strategiesOf(probabilities)
  /\ calcPc' = "genWrite"
  /\ regenerated' = TRUE
  /\ UNCHANGED <<ProcessorConfig, newProcessorErr, publishedPairs,
                 started, stopped, lockVars, now, dataVars, rwReaders, lastCheckedTime,
                 calcStartTime, calcEndTime, calcErr, initIdx, retProbabilities, retQPS,
                 updVars, saveVars>>

\* generateStrategyResponses: the exclusive section, which stores them
CalcGenWrite ==
  /\ calcPc = "genWrite"
  /\ rwReaders = {}
  /\ strategyResponses' = calcStrategies
  /\ calcStrategies' = EmptyMap
  /\ calcPc' = "spawnSave"
  /\ UNCHANGED <<ProcessorConfig, newProcessorErr, publishedPairs, regenerated,
                 started, stopped, lockVars, now, probabilities, qps, throughputs,
                 serviceCache, rwReaders, lastCheckedTime, calcStartTime, calcEndTime,
                 calcErr, initIdx, retProbabilities, retQPS, updVars, saveVars>>

IdleSaves == {k \in 1..MaxSaves : savePc[k] = "idle"}

\* go p.saveProbabilitiesAndQPS()
SpawnSave ==
  /\ calcPc = "spawnSave"
  /\ IdleSaves # {}
  /\ LET k == CHOOSE i \in IdleSaves : \A j \in IdleSaves : i <= j
     IN  savePc' = [savePc EXCEPT ![k] = "start"]
  /\ calcPc' = "waitTick"
  /\ UNCHANGED <<ProcessorConfig, newProcessorErr, publishedPairs, regenerated,
                 started, stopped, lockVars, now, dataVars, rwReaders, lastCheckedTime,
                 calcStartTime, calcEndTime, calcErr, initIdx, retProbabilities, retQPS,
                 calcStrategies, updVars, saveArgs>>

\* Variant of CalcStop whose return leaves the select only, not the loop
CalcStopLeavingSelectOnly ==
  /\ calcPc = "waitTick"
  /\ stopped[Self]
  /\ UNCHANGED vars

\* case <-p.calculationStop
CalcStop ==
  /\ calcPc = "waitTick"
  /\ stopped[Self]
  /\ calcPc' = "done"
  /\ UNCHANGED <<ProcessorConfig, newProcessorErr, publishedPairs, regenerated,
                 started, stopped, lockVars, now, dataVars, rwReaders, lastCheckedTime,
                 calcStartTime, calcEndTime, calcErr, initIdx, retProbabilities, retQPS,
                 calcStrategies, updVars, saveVars>>

(***************************************************************************)
(* The asynchronous save: saveProbabilitiesAndQPS.                         *)
(***************************************************************************)
NoArgs == [probabilities |-> EmptyMap, qps |-> EmptyMap]

\* p.RLock(); p.storage.InsertProbabilitiesAndQPS(p.hostname, p.probabilities, p.qps)
SaveCall(k) ==
  /\ savePc[k] = "start"
  /\ rwReaders' = rwReaders \cup {k}
  /\ saveArgs' = [saveArgs EXCEPT ![k] = [probabilities |-> probabilities, qps |-> qps]]
  /\ savePc' = [savePc EXCEPT ![k] = "inserting"]
  /\ UNCHANGED <<ProcessorConfig, newProcessorErr, publishedPairs, regenerated,
                 started, stopped, lockVars, now, dataVars, calcVars, updVars>>

\* InsertProbabilitiesAndQPS returns (with or without error); p.RUnlock()
SaveReturn(k) ==
  /\ savePc[k] = "inserting"
  /\ rwReaders' = rwReaders \ {k}
  /\ saveArgs' = [saveArgs EXCEPT ![k] = NoArgs]
  /\ savePc' = [savePc EXCEPT ![k] = "idle"]
  /\ UNCHANGED <<ProcessorConfig, newProcessorErr, publishedPairs, regenerated,
                 started, stopped, lockVars, now, dataVars, calcVars, updVars>>

(***************************************************************************)
(* The follower refresh loop: runUpdateProbabilitiesLoop.                  *)
(***************************************************************************)
\* addJitter returns; the ticker is created
UpdJitterDone ==
  /\ updPc = "jitter"
  /\ updPc' = "waitTick"
  /\ UNCHANGED <<ProcessorConfig, newProcessorErr, publishedPairs, regenerated,
                 started, stopped, lockVars, now, dataVars, rwReaders, calcVars,
                 updProbabilities, updLeaderAtRead, updStrategies, saveVars>>

\* runUpdateProbabilitiesLoop: whether a tick loads, given the flag it reads
tickLoads(flag) == ~flag

\* case <-ticker.C: if !p.isLeader(), loadProbabilities calls GetLatestProbabilities
UpdTick ==
  /\ updPc = "waitTick"
  /\ updPc' = IF tickLoads(leader[Self]) THEN "loading" ELSE "waitTick"
  /\ UNCHANGED <<ProcessorConfig, newProcessorErr, publishedPairs, regenerated,
                 started, stopped, lockVars, now, dataVars, rwReaders, calcVars,
                 updProbabilities, updLeaderAtRead, updStrategies, saveVars>>

\* loadProbabilities: GetLatestProbabilities returns
LoadReturn ==
  /\ updPc = "loading"
  /\ \E res \in ProbabilitiesResults :
       IF res.err
       THEN updPc' = "genRead" /\ UNCHANGED <<updProbabilities, updLeaderAtRead>>
       ELSE /\ updPc' = "assign"
            /\ updProbabilities' = res.probabilities
            /\ updLeaderAtRead' = leader[Self]
  /\ UNCHANGED <<ProcessorConfig, newProcessorErr, publishedPairs, regenerated,
                 started, stopped, lockVars, now, dataVars, rwReaders, calcVars,
                 updStrategies, saveVars>>

\* loadProbabilities: p.Lock(); p.probabilities = probabilities; p.Unlock()
LoadAssign ==
  /\ updPc = "assign"
  /\ rwReaders = {}
  /\ probabilities' = updProbabilities
  /\ updProbabilities' = EmptyMap
  /\ updLeaderAtRead' = FALSE
  /\ updPc' = "genRead"
  /\ regenerated' = FALSE
  /\ UNCHANGED <<ProcessorConfig, newProcessorErr, publishedPairs,
                 started, stopped, lockVars, now, qps, throughputs, strategyResponses,
                 serviceCache, rwReaders, calcVars, updStrategies, saveVars>>

UpdGenRead ==
  /\ updPc = "genRead"
  /\ updStrategies' = strategiesOf(probabilities)
  /\ updPc' = "genWrite"
  /\ regenerated' = TRUE
  /\ UNCHANGED <<ProcessorConfig, newProcessorErr, publishedPairs,
                 started, stopped, lockVars, now, dataVars, rwReaders, calcVars,
                 updProbabilities, updLeaderAtRead, saveVars>>

UpdGenWrite ==
  /\ updPc = "genWrite"
  /\ rwReaders = {}
  /\ strategyResponses' = updStrategies
  /\ updStrategies' = EmptyMap
  /\ updPc' = "waitTick"
  /\ UNCHANGED <<ProcessorConfig, newProcessorErr, publishedPairs, regenerated,
                 started, stopped, lockVars, now, probabilities, qps, throughputs,
                 serviceCache, rwReaders, calcVars, updProbabilities, updLeaderAtRead,
                 saveVars>>

\* case <-p.updateProbabilitiesStop
UpdStop ==
  /\ updPc = "waitTick"
  /\ stopped[Self]
  /\ updPc' = "done"
  /\ UNCHANGED <<ProcessorConfig, newProcessorErr, publishedPairs, regenerated,
                 started, stopped, lockVars, now, dataVars, rwReaders, calcVars,
                 updProbabilities, updLeaderAtRead, updStrategies, saveVars>>

(***************************************************************************)
(* Specifications.                                                         *)
(***************************************************************************)
\* The fields of the processor NewProcessor builds, and the goroutines that
\* Start has not yet created
newProcessorFields ==
  /\ started = FALSE
  /\ stopped = [p \in Procs |-> FALSE]
  /\ leader = [p \in Procs |-> FALSE]
  /\ lockPc = [p \in Procs |-> "idle"]
  /\ lockInterval = [p \in Procs |-> 0]
  /\ lastAcquire = [p \in Procs |-> NoAcquire]
  /\ probabilities = EmptyMap
  /\ qps = EmptyMap
  /\ throughputs = <<>>
  /\ strategyResponses = EmptyMap
  /\ serviceCache = <<>>
  /\ rwReaders = {}
  /\ calcPc = "idle"
  /\ lastCheckedTime = 0
  /\ calcStartTime = 0
  /\ calcEndTime = 0
  /\ calcErr = FALSE
  /\ initIdx = 0
  /\ retProbabilities = EmptyMap
  /\ retQPS = EmptyMap
  /\ calcStrategies = EmptyMap
  /\ updPc = "idle"
  /\ updProbabilities = EmptyMap
  /\ updLeaderAtRead = FALSE
  /\ updStrategies = EmptyMap
  /\ savePc = [k \in 1..MaxSaves |-> "idle"]
  /\ saveArgs = [k \in 1..MaxSaves |-> NoArgs]

\* The validation of NewProcessor: the error it returns for config
newProcessorError(config) ==
  IF config.LookbackInterval < config.CalculationInterval THEN "errIntervals"
  ELSE IF config.CalculationInterval = 0 \/ config.LookbackInterval = 0
    THEN "errNonZeroIntervals"
  ELSE IF config.FollowerLeaseRefreshInterval < config.LeaderLeaseRefreshInterval
    THEN "errLockIntervals"
  ELSE IF config.LookbackQPSCount < 1 THEN "errLookbackQPSCount"
  ELSE "nil"

\* NewProcessor(config, ...) returns (nil, err) or (&processor{...}, nil)
NewProcessor ==
  /\ newProcessorErr = "pending"
  /\ newProcessorErr' = newProcessorError(ProcessorConfig)
  /\ UNCHANGED <<ProcessorConfig, publishedPairs, regenerated, started, stopped,
                 lockVars, now, dataVars, rwReaders, calcVars, updVars, saveVars>>

\* The processor as NewProcessor returns it, before Start
Init ==
  /\ ProcessorConfig = BaseConfig
  /\ newProcessorErr = "nil"
  /\ publishedPairs = {}
  /\ regenerated = FALSE
  /\ newProcessorFields
  /\ lockHolder = NoHolder
  /\ now = 0

\* One processor, started and left running, with its three loops and its
\* save goroutines; the rest of the fleet is the lock service granting the
\* lock to another collector.
Next ==
  \/ Start
  \/ LockJitterDone(Self)
  \/ AcquireReturn(Self)
  \/ LockTick(Self)
  \/ LeaseExpire
  \/ PeerAcquire
  \/ InitializeThroughputStep
  \/ CalcTick
  \/ GetThroughputReturn
  \/ Calculate_
  \/ Publish
  \/ CalcGenRead
  \/ CalcGenWrite
  \/ SpawnSave
  \/ \E k \in 1..MaxSaves : SaveCall(k)
  \/ \E k \in 1..MaxSaves : SaveReturn(k)
  \/ UpdJitterDone
  \/ UpdTick
  \/ LoadReturn
  \/ LoadAssign
  \/ UpdGenRead
  \/ UpdGenWrite

Spec == Init /\ [][Next]_vars

\* The leader-election loops of two started processors contending for the
\* lock; their other loops do not touch the flag or the lock.
InitFleet ==
  /\ ProcessorConfig = BaseConfig
  /\ newProcessorErr = "nil"
  /\ publishedPairs = {}
  /\ regenerated = TRUE
  /\ started = TRUE
  /\ stopped = [p \in Procs |-> FALSE]
  /\ leader = [p \in Procs |-> FALSE]
  /\ lockPc = [p \in Procs |-> "jitter"]
  /\ lockInterval = [p \in Procs |-> 0]
  /\ lastAcquire = [p \in Procs |-> NoAcquire]
  /\ lockHolder = NoHolder
  /\ now = 0
  /\ probabilities = EmptyMap
  /\ qps = EmptyMap
  /\ throughputs = <<>>
  /\ strategyResponses = EmptyMap
  /\ serviceCache = <<>>
  /\ rwReaders = {}
  /\ calcPc = "init"
  /\ lastCheckedTime = 0 - Delay
  /\ calcStartTime = 0
  /\ calcEndTime = 0 - Delay
  /\ calcErr = FALSE
  /\ initIdx = 0
  /\ retProbabilities = EmptyMap
  /\ retQPS = EmptyMap
  /\ calcStrategies = EmptyMap
  /\ updPc = "jitter"
  /\ updProbabilities = EmptyMap
  /\ updLeaderAtRead = FALSE
  /\ updStrategies = EmptyMap
  /\ savePc = [k \in 1..MaxSaves |-> "idle"]
  /\ saveArgs = [k \in 1..MaxSaves |-> NoArgs]

NextFleet ==
  \/ \E p \in Procs : LockJitterDone(p)
  \/ \E p \in Procs : AcquireReturn(p)
  \/ \E p \in Procs : LockTick(p)
  \/ \E p \in Procs : LockStop(p)
  \/ \E p \in Procs : Stop(p)
  \/ LeaseExpire

SpecFleet == InitFleet /\ [][NextFleet]_vars

(***************************************************************************)
(* One processor that is started and then stopped.                         *)
(***************************************************************************)
\* what GetThroughput answers a tick of the processor that is being stopped
StopResults ==
  {[err |-> FALSE, rows |-> <<Row("A", "x", 5, {})>>], [err |-> TRUE, rows |-> <<>>]}

\* runAcquireLockLoop between two selects: the sleep ends, Acquire returns
LockProgress == LockJitterDone(Self) \/ AcquireReturn(Self)

\* runCalculationLoop between two selects
CalcProgress ==
  \/ InitializeThroughputStep
  \/ GetThroughputReturnFrom(StopResults)
  \/ Calculate_
  \/ Publish
  \/ CalcGenRead
  \/ CalcGenWrite
  \/ SpawnSave

\* a save goroutine
SaveProgress == \E k \in 1..MaxSaves : SaveCall(k) \/ SaveReturn(k)

\* runUpdateProbabilitiesLoop between two selects
UpdProgress ==
  \/ UpdJitterDone
  \/ LoadReturn
  \/ LoadAssign
  \/ UpdGenRead
  \/ UpdGenWrite

NextStop ==
  \/ Start
  \/ Stop(Self)
  \/ LockProgress
  \/ LockTick(Self)
  \/ LockStop(Self)
  \/ CalcProgress
  \/ CalcTick
  \/ CalcStop
  \/ SaveProgress
  \/ UpdProgress
  \/ UpdTick
  \/ UpdStop

\* Scheduling.  A goroutine that can take a step takes it: sleeps end, store
\* and lock-service calls return, a mutex that is free is acquired.  A select
\* with several ready cases picks one at random, so a loop that comes back
\* to its select again and again with the stop channel closed takes the stop
\* case at last.  Nothing makes a ticker fire or Stop be called.
FairStop ==
  /\ WF_vars(LockProgress)
  /\ SF_vars(LockStop(Self))
  /\ WF_vars(CalcProgress)
  /\ SF_vars(CalcStop)
  /\ WF_vars(SaveProgress)
  /\ WF_vars(UpdProgress)
  /\ SF_vars(UpdStop)

\* The processor as NewProcessor returns it; the clock is set so that MaxTime
\* allows one calculation tick
InitStop ==
  /\ ProcessorConfig = BaseConfig
  /\ newProcessorErr = "nil"
  /\ publishedPairs = {}
  /\ regenerated = FALSE
  /\ newProcessorFields
  /\ lockHolder = NoHolder
  /\ now = MaxTime - BaseConfig.CalculationInterval

SpecStop == InitStop /\ [][NextStop]_vars /\ FairStop

(***************************************************************************)
(* Failover: the collector that holds the lock has been killed and no      *)
(* longer refreshes its lease; this processor is started and survives.     *)
(***************************************************************************)
Peer == "p2"

\* The processor as NewProcessor returns it, the lock held by the peer; the
\* clock is set so that MaxTime allows one calculation tick
InitFailover ==
  /\ ProcessorConfig = BaseConfig
  /\ newProcessorErr = "nil"
  /\ publishedPairs = {}
  /\ regenerated = FALSE
  /\ newProcessorFields
  /\ lockHolder = Peer
  /\ now = MaxTime - BaseConfig.CalculationInterval

\* lock service: the lease of the killed peer runs out
PeerLeaseExpire == lockHolder = Peer /\ LeaseExpire

\* lock service: Acquire returns (true, nil)
AcquireGranted(p) == AcquireReturn(p) /\ lastAcquire'[p].acquired

NextFailover ==
  \/ Start
  \/ LockProgress
  \/ LockTick(Self)
  \/ LeaseExpire
  \/ CalcProgress
  \/ CalcTick
  \/ SaveProgress
  \/ UpdProgress
  \/ UpdTick

\* Scheduling.  The survivor's goroutines take the steps they can take and
\* the ticker of its leader-election loop fires; the killed peer's lease
\* lapses; the lock service, asked again and again while the lock is free,
\* at last answers (true, nil).  Nothing makes the calculation ticker fire.
FairFailover ==
  /\ WF_vars(Start)
  /\ WF_vars(LockProgress)
  /\ WF_vars(LockTick(Self))
  /\ SF_vars(AcquireGranted(Self))
  /\ WF_vars(PeerLeaseExpire)
  /\ WF_vars(CalcProgress)
  /\ WF_vars(SaveProgress)
  /\ WF_vars(UpdProgress)

SpecFailover == InitFailover /\ [][NextFailover]_vars /\ FairFailover

(***************************************************************************)
(* NewProcessor on its own: one call, on the configs Init draws.           *)
(***************************************************************************)
\* Durations of the config, in seconds: negative, zero and positive
DurationInputs == (0 - 2) .. 3

NewProcessorConfigs ==
  {[BaseConfig EXCEPT !.CalculationInterval = c, !.LookbackInterval = l,
                      !.LeaderLeaseRefreshInterval = ll,
                      !.FollowerLeaseRefreshInterval = fl,
                      !.LookbackQPSCount = n] :
     c \in DurationInputs, l \in DurationInputs,
     ll \in {1, 2}, fl \in {1, 2}, n \in {0, 1, 2}}

InitNew ==
  /\ ProcessorConfig \in NewProcessorConfigs
  /\ newProcessorErr = "pending"
  /\ publishedPairs = {}
  /\ regenerated = FALSE
  /\ newProcessorFields
  /\ lockHolder = NoHolder
  /\ now = 0

NextNew == NewProcessor

SpecNew == InitNew /\ [][NextNew]_vars

(***************************************************************************)
(* A leader's calculation rounds on a prescribed stream of buckets.        *)
(***************************************************************************)
\* A started processor that holds the lock and keeps it, its startup ring
\* initialization over with nothing found, waiting for its first tick; probs
\* is what Start loaded.  The clock is set so that MaxTime allows three ticks.
LeaderReady(cfg, probs) ==
  /\ ProcessorConfig = cfg
  /\ newProcessorErr = "nil"
  /\ publishedPairs = {}
  /\ regenerated = TRUE
  /\ started = TRUE
  /\ stopped = [p \in Procs |-> FALSE]
  /\ leader = [p \in Procs |-> p = Self]
  /\ lockPc = [p \in Procs |-> IF p = Self THEN "waitTick" ELSE "idle"]
  /\ lockInterval = [p \in Procs |-> IF p = Self THEN cfg.LeaderLeaseRefreshInterval ELSE 0]
  /\ lastAcquire = [p \in Procs |-> NoAcquire]
  /\ lockHolder = Self
  /\ now = 0 - cfg.CalculationInterval
  /\ probabilities = probs
  /\ qps = EmptyMap
  /\ throughputs = <<>>
  /\ strategyResponses = strategiesOf(probs)
  /\ serviceCache = <<>>
  /\ rwReaders = {}
  /\ calcPc = "waitTick"
  /\ lastCheckedTime = now - cfg.Delay
  /\ calcStartTime = 0
  /\ calcEndTime = now - cfg.Delay
  /\ calcErr = FALSE
  /\ initIdx = 0
  /\ retProbabilities = EmptyMap
  /\ retQPS = EmptyMap
  /\ calcStrategies = EmptyMap
  /\ updPc = "waitTick"
  /\ updProbabilities = EmptyMap
  /\ updLeaderAtRead = FALSE
  /\ updStrategies = EmptyMap
  /\ savePc = [k \in 1..MaxSaves |-> "idle"]
  /\ saveArgs = [k \in 1..MaxSaves |-> NoArgs]

\* The calculation loop and the saves it spawns, the store answering
\* GetThroughput with one of results; the leader's lease refreshes
LeaderRounds(results) ==
  \/ LockTick(Self)
  \/ AcquireReturn(Self)
  \/ CalcTick
  \/ GetThroughputReturnFrom(results)
  \/ Calculate_
  \/ Publish
  \/ CalcGenRead
  \/ CalcGenWrite
  \/ SpawnSave
  \/ \E k \in 1..MaxSaves : SaveCall(k)
  \/ \E k \in 1..MaxSaves : SaveReturn(k)

\* S1: every tick's bucket holds (A, x) with count 0 and nothing seen
RampUpResults == {[err |-> FALSE, rows |-> <<Row("A", "x", 0, {})>>]}

InitRampUp == LeaderReady(BaseConfig, EmptyMap)

NextRampUp == LeaderRounds(RampUpResults)

SpecRampUp == InitRampUp /\ [][NextRampUp]_vars

\* S5 and longer disappearances: the processor loaded 0.2 for (A, x) at
\* Start; a tick's bucket either holds (A, x) with 0.2 seen, or is empty
PersistenceResults ==
  {[err |-> FALSE, rows |-> <<Row("A", "x", 2, {2000})>>],
   [err |-> FALSE, rows |-> <<>>]}

\* Configurations with a ring of one, two and three buckets, and with the
\* default probability equal to and above the minimum
PersistenceConfigs ==
  {[BaseConfig EXCEPT !.LookbackInterval = l, !.DefaultSamplingProbability = d] :
     l \in {1, 2, 3}, d \in {100, 10000}}

InitPersistence ==
  \E cfg \in PersistenceConfigs :
    LeaderReady(cfg, [svc \in {"A"} |-> [op \in {"x"} |-> 20000]])

NextPersistence == LeaderRounds(PersistenceResults)

SpecPersistence == InitPersistence /\ [][NextPersistence]_vars

(***************************************************************************)
(* calculateProbability on its own: one call, on the inputs Init draws.    *)
(***************************************************************************)
\* Mutable.GetTargetQPS() and Mutable.GetQPSEquivalenceThreshold(), milli-qps
TargetInputs == {5, 1000}
ThresholdInputs == {10, 2000}

CalcConfigs ==
  {[BaseConfig EXCEPT !.TargetQPS = t, !.QPSEquivalenceThreshold = h] :
     t \in TargetInputs, h \in ThresholdInputs}

\* p.probabilities[A][x] before the call (absent: the default applies)
ProbabilityInputs == {100, 200, 30000, 60000}

\* the qps argument, milli-qps
QPSInputs == {0, 5, 995, 1005, 1010, 5000}

\* probabilities_seen of (A, x) in the latest bucket, in 1e-4 units
SeenInputs == {{}, {20, 3000, 6000}}

\* The processor of a leader about to call calculateProbability(A, x, q) in
\* its first round: the service cache has just been prepended to
InitCalc ==
  /\ ProcessorConfig \in CalcConfigs
  /\ newProcessorErr = "nil"
  /\ publishedPairs = {}
  /\ regenerated = TRUE
  /\ started = TRUE
  /\ stopped = [p \in Procs |-> FALSE]
  /\ leader = [p \in Procs |-> p = Self]
  /\ lockPc = [p \in Procs |-> IF p = Self THEN "waitTick" ELSE "idle"]
  /\ lockInterval = [p \in Procs |-> IF p = Self THEN LeaderLeaseRefreshInterval ELSE 0]
  /\ lastAcquire = [p \in Procs |-> NoAcquire]
  /\ lockHolder = Self
  /\ now = 0
  /\ probabilities \in {EmptyMap} \cup
                        {[svc \in {"A"} |-> [op \in {"x"} |-> v]] : v \in ProbabilityInputs}
  /\ qps = EmptyMap
  /\ \E seen \in SeenInputs :
       throughputs = <<Bucket(aggregateThroughput(<<Row("A", "x", 5, seen)>>),
                              CalculationInterval, 0 - Delay)>>
  /\ strategyResponses = strategiesOf(probabilities)
  /\ serviceCache = <<EmptyMap>>
  /\ rwReaders = {}
  /\ calcPc = "calculate"
  /\ lastCheckedTime = 0 - Delay
  /\ calcStartTime = 0 - Delay - CalculationInterval
  /\ calcEndTime = 0 - Delay
  /\ calcErr = FALSE
  /\ initIdx = 0
  /\ retProbabilities = EmptyMap
  /\ retQPS \in {[svc \in {"A"} |-> [op \in {"x"} |-> q]] : q \in QPSInputs}
  /\ calcStrategies = EmptyMap
  /\ updPc = "waitTick"
  /\ updProbabilities = EmptyMap
  /\ updLeaderAtRead = FALSE
  /\ updStrategies = EmptyMap
  /\ savePc = [k \in 1..MaxSaves |-> "idle"]
  /\ saveArgs = [k \in 1..MaxSaves |-> NoArgs]

\* retProbabilities[svc][op] = p.calculateProbability(svc, op, avgQPS)
CalculateProbabilityCall(svc, op) ==
  /\ calcPc = "calculate"
  /\ svc \in DOMAIN retQPS
  /\ op \in DOMAIN retQPS[svc]
  /\ retProbabilities' =
       MapPut(retProbabilities, svc,
              MapPut(IF svc \in DOMAIN retProbabilities THEN retProbabilities[svc]
                     ELSE EmptyMap,
                     op,
                     calculateProbability(probabilities, throughputs, serviceCache,
                                          svc, op, retQPS[svc][op])))
  /\ serviceCache' =
       [serviceCache EXCEPT ![1] =
          MapPut(serviceCache[1], svc,
                 MapPut(IF svc \in DOMAIN serviceCache[1] THEN serviceCache[1][svc]
                        ELSE EmptyMap,
                        op,
                        calculateProbabilityEntry(probabilities, throughputs,
                                                  serviceCache, svc, op)))]
  /\ calcPc' = "publish"
  /\ UNCHANGED <<ProcessorConfig, newProcessorErr, publishedPairs, regenerated,
                 started, stopped, lockVars, now, probabilities, qps,
                 throughputs, strategyResponses, rwReaders, lastCheckedTime,
                 calcStartTime, calcEndTime, calcErr, initIdx, retQPS, calcStrategies,
                 updVars, saveVars>>

NextCalc == \E svc \in Services, op \in Operations : CalculateProbabilityCall(svc, op)

SpecCalc == InitCalc /\ [][NextCalc]_vars

(***************************************************************************)
(* Properties.                                                             *)
(***************************************************************************)
Leaders == {p \in Procs : leader[p]}

\* C1: at every moment at most one processor of the fleet has its leader
\* flag set.
C1_AtMostOneLeader == Cardinality(Leaders) <= 1

\* C2: every value of the probabilities map lies between
\* MinSamplingProbability and 1.0.
C2_ProbabilitiesWithinBounds ==
  \A svc \in DOMAIN probabilities : \A op \in DOMAIN probabilities[svc] :
    /\ MinSamplingProbability <= probabilities[svc][op]
    /\ probabilities[svc][op] <= maxSamplingProbability

\* The refresh loop replaces p.probabilities with the map it loaded
RefreshAssigns == updPc = "assign" /\ updPc' = "genRead"

\* C3: the refresh loop replaces the probabilities map only if the leader
\* flag was false when the tick's GetLatestProbabilities call returned, and
\* never while the flag is true.
C3_RefreshOnlyAsFollower ==
  [][RefreshAssigns => ~updLeaderAtRead /\ ~leader[Self]]_vars

\* C4: no task holds the readers-writer lock while its store call or
\* lock-service call is in progress.  (The save goroutines are the only tasks
\* whose lock section spans more than one step.)
C4_NoLockAcrossCalls ==
  \A k \in 1..MaxSaves : savePc[k] = "inserting" => k \notin rwReaders

\* The calculation loop's generateStrategyResponses call returns
CalcGenerateReturns == calcPc = "genWrite" /\ calcPc' = "spawnSave"

\* C5: when the generateStrategyResponses call of a leader's calculation
\* tick returns, strategyResponses and probabilities have the same services.
C5_ResponsesMatchProbabilities ==
  [][CalcGenerateReturns => DOMAIN strategyResponses' = DOMAIN probabilities']_vars

\* acquireLock of processor p returns
AcquireLockReturns(p) == lockPc[p] = "acquiring" /\ lockPc'[p] = "waitTick"

\* C6 as claimed: after Acquire, true sets the flag and schedules the next
\* tick after LeaderLeaseRefreshInterval, false clears it and schedules after
\* FollowerLeaseRefreshInterval, and an error leaves the flag and schedules
\* after FollowerLeaseRefreshInterval whatever the flag.
C6_ErrorAlwaysFollowerInterval ==
  [][\A p \in Procs : AcquireLockReturns(p) =>
       LET res == lastAcquire'[p]
       IN  /\ (~res.err /\ res.acquired) =>
                leader'[p] /\ lockInterval'[p] = LeaderLeaseRefreshInterval
           /\ (~res.err /\ ~res.acquired) =>
                ~leader'[p] /\ lockInterval'[p] = FollowerLeaseRefreshInterval
           /\ res.err =>
                /\ leader'[p] = leader[p]
                /\ lockInterval'[p] = FollowerLeaseRefreshInterval]_vars

\* C6 amended: as above, but after an error the next tick is scheduled after
\* LeaderLeaseRefreshInterval if the (unchanged) flag is true and after
\* FollowerLeaseRefreshInterval if it is false.
C6_AcquireLockOutcome ==
  [][\A p \in Procs : AcquireLockReturns(p) =>
       LET res == lastAcquire'[p]
       IN  /\ (~res.err /\ res.acquired) =>
                leader'[p] /\ lockInterval'[p] = LeaderLeaseRefreshInterval
           /\ (~res.err /\ ~res.acquired) =>
                ~leader'[p] /\ lockInterval'[p] = FollowerLeaseRefreshInterval
           /\ res.err =>
                /\ leader'[p] = leader[p]
                /\ lockInterval'[p] = IF leader[p] THEN LeaderLeaseRefreshInterval
                                      ELSE FollowerLeaseRefreshInterval]_vars

\* A leader whose Acquire just failed: still leader, on the leader's cadence
C6_Witness ==
  \E p \in Procs :
    /\ lockPc[p] = "waitTick"
    /\ lastAcquire[p].err
    /\ leader[p]
    /\ lockInterval[p] = LeaderLeaseRefreshInterval

\* Steps of a calculation tick
CalcTickStarts == calcPc = "waitTick" /\ calcPc' = "getThroughput"
CalcFetchReturns == calcPc = "getThroughput" /\ calcPc' # "getThroughput"

\* What a calculation tick may publish, record or write
calcOutputs == <<probabilities, qps, strategyResponses, serviceCache, savePc, saveArgs>>

\* C7: a calculation tick whose GetThroughput fails changes nothing (ring,
\* lastCheckedTime, probabilities, qps, strategyResponses, status history,
\* no save started), and the next tick queries from the same start time.
C7_FailedTickChangesNothing ==
  [][/\ CalcTickStarts =>
          /\ UNCHANGED <<throughputs, lastCheckedTime, calcOutputs>>
          /\ calcStartTime' = lastCheckedTime
     /\ (CalcFetchReturns /\ calcErr') =>
          /\ calcPc' = "waitTick"
          /\ UNCHANGED <<throughputs, lastCheckedTime, calcOutputs>>
          /\ lastCheckedTime' = calcStartTime
     /\ (CalcTickStarts /\ calcErr) => calcStartTime' = calcStartTime]_vars

\* The tick after a failed tick is querying, from the start time of the
\* failed one, a window that has grown
C7_Witness ==
  /\ calcPc = "getThroughput"
  /\ calcErr
  /\ calcStartTime = lastCheckedTime
  /\ calcEndTime - calcStartTime > CalculationInterval

\* C8: a tick whose GetThroughput succeeds prepends exactly one bucket,
\* leader or not, and goes on to calculate exactly if the leader flag is set
\* at that moment; probabilities, qps, strategyResponses, the status history
\* and the saves are touched by the calculation loop only in the steps that
\* follow in a leader's tick, so a tick run as non-leader leaves them alone.
C8_OnlyLeaderTickCalculates ==
  [][/\ (CalcFetchReturns /\ ~calcErr') =>
          /\ Len(throughputs') = Min(Len(throughputs) + 1, buckets)
          /\ throughputs'[1].endTime = calcEndTime
          /\ throughputs'[1].interval = calcEndTime - calcStartTime
          /\ \A i \in 2..Len(throughputs') : throughputs'[i] = throughputs[i - 1]
          /\ lastCheckedTime' = calcEndTime
          /\ (calcPc' = "calculate") = leader[Self]
          /\ (calcPc' = "waitTick") = ~leader[Self]
          /\ UNCHANGED calcOutputs
     /\ (calcVars' # calcVars /\ calcPc \in {"init", "waitTick", "getThroughput"}) =>
          UNCHANGED calcOutputs]_vars

\* A tick has run to its end as non-leader on a processor that never calculated
C8_Witness ==
  /\ calcPc = "waitTick"
  /\ ~calcErr
  /\ now > 0
  /\ Len(throughputs) > 0
  /\ throughputs[1].endTime = now - Delay
  /\ serviceCache = <<>>

\* C9: the ring holds at most buckets buckets, end times strictly decrease
\* from the head, and the head is the bucket of the latest successful fetch.
C9_RingBoundedAndOrdered ==
  /\ Len(throughputs) <= buckets
  /\ \A i \in 1..Len(throughputs) : \A j \in 1..Len(throughputs) :
       i < j => throughputs[i].endTime > throughputs[j].endTime
  /\ Len(throughputs) > 0 => throughputs[1].endTime = lastCheckedTime

\* A full ring whose buckets all come from calculation ticks
C9_Witness ==
  /\ Len(throughputs) = buckets
  /\ throughputs[Len(throughputs)].endTime > 0 - Delay

\* The calculation round whose snapshot is serviceCache[1] is still running:
\* throughputs[1] is the bucket it classified against
InRound == calcPc \in {"publish", "genRead", "genWrite", "spawnSave"}

HasThroughput(svc, op) ==
  svc \in DOMAIN throughputs[1].throughput /\ op \in DOMAIN throughputs[1].throughput[svc]

SeenInLatest(svc, op, probability) ==
  /\ HasThroughput(svc, op)
  /\ truncateFloat(probability) \in throughputs[1].throughput[svc][op].Probabilities

HasHistory(svc, op) == Len(serviceCache) > 1 /\ cacheHas(serviceCache[2], svc, op)

AdaptiveInHistory(svc, op) ==
  /\ serviceCache[2][svc][op].usingAdapative
  /\ serviceCache[2][svc][op].probability # DefaultSamplingProbability

\* C10 as claimed: using_adaptive is (1) true for the default probability,
\* (2) else true if the operation is in the latest bucket with the
\* probability seen, (3) else decided by history[1] if it has the operation,
\* (4) else false.
C10_FourClausesFallingThrough ==
  InRound =>
    \A svc \in DOMAIN serviceCache[1] : \A op \in DOMAIN serviceCache[1][svc] :
      LET e == serviceCache[1][svc][op]
      IN  e.usingAdapative =
            IF e.probability = DefaultSamplingProbability THEN TRUE
            ELSE IF SeenInLatest(svc, op, e.probability) THEN TRUE
            ELSE IF HasHistory(svc, op) THEN AdaptiveInHistory(svc, op)
            ELSE FALSE

\* C10 amended: (2) else, if the operation is in the latest bucket,
\* using_adaptive is whether the probability was seen there; (3) else, the
\* operation being absent from the latest bucket, history[1] decides if it
\* has the operation; (4) else false.
C10_UsingAdaptiveClauses ==
  InRound =>
    \A svc \in DOMAIN serviceCache[1] : \A op \in DOMAIN serviceCache[1][svc] :
      LET e == serviceCache[1][svc][op]
      IN  e.usingAdapative =
            IF e.probability = DefaultSamplingProbability THEN TRUE
            ELSE IF HasThroughput(svc, op) THEN SeenInLatest(svc, op, e.probability)
            ELSE IF HasHistory(svc, op) THEN AdaptiveInHistory(svc, op)
            ELSE FALSE

\* An operation with throughput whose probability was not seen is classified
\* not adaptive although history[1] has it as adaptive
C10_Witness ==
  /\ InRound
  /\ \E svc \in DOMAIN serviceCache[1] : \E op \in DOMAIN serviceCache[1][svc] :
       /\ ~serviceCache[1][svc][op].usingAdapative
       /\ HasThroughput(svc, op)
       /\ HasHistory(svc, op)
       /\ AdaptiveInHistory(svc, op)

\* calculateProbability(A, x, q) has returned in SpecCalc
Called == calcPc = "publish" /\ cacheHas(retProbabilities, "A", "x")

oldOfCall == serviceCache[1]["A"]["x"].probability
adaptiveOfCall == serviceCache[1]["A"]["x"].usingAdapative
qpsOfCall == retQPS["A"]["x"]
newOfCall == retProbabilities["A"]["x"]

rampUp(old) == Min(maxSamplingProbability, Max(MinSamplingProbability, 2 * old))

\* C11 as claimed: for an adaptive operation whose qps is 0,
\* calculateProbability returns min(1, max(MinSamplingProbability, 2 * old)),
\* whatever the target qps and the equivalence threshold.
C11_ZeroQPSAlwaysDoubles ==
  (Called /\ adaptiveOfCall /\ floatEquals(qpsOfCall, 0)) =>
    newOfCall = rampUp(oldOfCall)

\* C11 amended: for an adaptive operation whose qps is 0, calculateProbability
\* returns min(1, max(MinSamplingProbability, 2 * old)) when the target qps is
\* at least the equivalence threshold, and old_probability when the target
\* qps is below the threshold.
C11_ZeroQPSDoublesUnlessEquivalent ==
  (Called /\ adaptiveOfCall /\ floatEquals(qpsOfCall, 0)) =>
    newOfCall = IF TargetQPS >= QPSEquivalenceThreshold THEN rampUp(oldOfCall)
                ELSE oldOfCall

\* An adaptive operation at zero qps, target not below the threshold: doubled
C11_Witness ==
  /\ Called
  /\ adaptiveOfCall
  /\ floatEquals(qpsOfCall, 0)
  /\ TargetQPS >= QPSEquivalenceThreshold
  /\ newOfCall = 2 * oldOfCall
  /\ newOfCall # oldOfCall

\* C12: whenever |qps - target| is strictly below the equivalence threshold,
\* calculateProbability returns old_probability exactly, adaptive or not.
C12_EquivalentQPSKeepsProbability ==
  (Called /\ Abs(qpsOfCall - TargetQPS) < QPSEquivalenceThreshold) =>
    newOfCall = oldOfCall

\* old = 0.3, qps = 1.005, target = 1, threshold = 0.01, adaptive: 0.3 returned
C12_Witness ==
  /\ Called
  /\ adaptiveOfCall
  /\ oldOfCall = 30000
  /\ qpsOfCall = 1005
  /\ TargetQPS = 1000
  /\ QPSEquivalenceThreshold = 10
  /\ newOfCall = 30000

\* Calculation rounds this leader has run through publication
RoundsPublished ==
  IF calcPc = "publish" THEN Len(serviceCache) - 1 ELSE Len(serviceCache)

publishedOf(svc, op) == probabilities[svc][op]

\* C13 as claimed (S1): on the stream of zero-count buckets the published
\* probability of (A, x) is 0.002 after tick 1, 0.004 after tick 2 and 0.008
\* after tick 3.
C13_DoublesEveryTick ==
  \A k \in 1..3 :
    RoundsPublished = k => publishedOf("A", "x") = DefaultSamplingProbability * Pow2(k)

\* C13 amended: the published probability of (A, x) is 0.002 after tick 1 and
\* stays 0.002 after tick 2 and after tick 3.
C13_DoublesOnceThenStays ==
  \A k \in 1..3 :
    RoundsPublished = k => publishedOf("A", "x") = 2 * DefaultSamplingProbability

\* Three ticks are through, the last one's zero-qps round classified (A, x)
\* as not adaptive, and the probability is still 0.002
C13_Witness ==
  /\ RoundsPublished = 3
  /\ calcPc = "waitTick"
  /\ qps["A"]["x"] = 0
  /\ ~serviceCache[1]["A"]["x"].usingAdapative
  /\ publishedOf("A", "x") = 200

\* The round whose snapshot is serviceCache[1] has published, and
\* throughputs[1] is still the bucket it classified against
AfterRound == calcPc \in {"genRead", "genWrite", "spawnSave", "waitTick", "getThroughput"}

InBucket(i, svc, op) ==
  svc \in DOMAIN throughputs[i].throughput /\ op \in DOMAIN throughputs[i].throughput[svc]

InRing(svc, op) == \E i \in 1..Len(throughputs) : InBucket(i, svc, op)

\* Round 1 classified (A, x) adaptive with a non-default probability, and
\* (A, x) is absent from the bucket of round 2
S5Rounds ==
  /\ AfterRound
  /\ Len(serviceCache) = 2
  /\ cacheHas(serviceCache[2], "A", "x")
  /\ serviceCache[2]["A"]["x"].usingAdapative
  /\ serviceCache[2]["A"]["x"].probability # DefaultSamplingProbability
  /\ ~InBucket(1, "A", "x")

\* C14 as claimed (S5): after round 2 the round-2 snapshot records (A, x)
\* with using_adaptive true and the probabilities map still holds (A, x) with
\* the probability it had before the round.
C14_AbsentKeepsProbability ==
  S5Rounds =>
    /\ cacheHas(serviceCache[1], "A", "x")
    /\ serviceCache[1]["A"]["x"].usingAdapative
    /\ cacheHas(probabilities, "A", "x")
    /\ probabilities["A"]["x"] = serviceCache[1]["A"]["x"].probability

\* C14 amended: if (A, x) is still in an older bucket of the ring, the
\* round-2 snapshot records it with using_adaptive true and its probability
\* is recalculated from the qps of the older buckets (unchanged only within
\* the equivalence threshold); if it is in no bucket of the ring, round 2
\* does not consider it: the snapshot does not record it and the published
\* probabilities map no longer holds it.
C14_AbsentRecalculatedOrDropped ==
  S5Rounds =>
    IF InRing("A", "x")
    THEN /\ cacheHas(serviceCache[1], "A", "x")
         /\ serviceCache[1]["A"]["x"].usingAdapative
         /\ cacheHas(probabilities, "A", "x")
         /\ LET old == serviceCache[1]["A"]["x"].probability
                q == qps["A"]["x"]
            IN  probabilities["A"]["x"] =
                  IF Abs(q - TargetQPS) < QPSEquivalenceThreshold THEN old
                  ELSE Min(maxSamplingProbability,
                           Max(MinSamplingProbability,
                               IF q = 0 THEN 2 * old ELSE Calculate(TargetQPS, q, old)))
    ELSE /\ ~cacheHas(serviceCache[1], "A", "x")
         /\ ~cacheHas(probabilities, "A", "x")

\* Round 2 found (A, x) only in the older bucket, took its status from
\* history[1] and changed its probability
C14_Witness ==
  /\ S5Rounds
  /\ InRing("A", "x")
  /\ serviceCache[1]["A"]["x"].usingAdapative
  /\ serviceCache[1]["A"]["x"].probability # DefaultSamplingProbability
  /\ probabilities["A"]["x"] # serviceCache[1]["A"]["x"].probability

\* j - 1 rounds ago (A, x) was classified adaptive by membership with a
\* non-default probability, and it has been absent from every bucket since
\* while still in the ring
AbsentSince(j) ==
  /\ AfterRound
  /\ j \in 2..Len(serviceCache)
  /\ j <= Len(throughputs)
  /\ cacheHas(serviceCache[j], "A", "x")
  /\ serviceCache[j]["A"]["x"].usingAdapative
  /\ serviceCache[j]["A"]["x"].probability # DefaultSamplingProbability
  /\ InBucket(j, "A", "x")
  /\ truncateFloat(serviceCache[j]["A"]["x"].probability)
       \in throughputs[j].throughput["A"]["x"].Probabilities
  /\ \A i \in 1..(j - 1) : ~InBucket(i, "A", "x")

\* C19 as claimed: an operation classified adaptive by membership with a
\* non-default probability keeps using_adaptive true in every following
\* round in which it is absent from the latest bucket but still in the ring,
\* however many such rounds and whatever was computed in between.
C19_AdaptiveKeptWhileAbsent ==
  \A j \in 2..serviceCacheSize :
    AbsentSince(j) =>
      cacheHas(serviceCache[1], "A", "x") /\ serviceCache[1]["A"]["x"].usingAdapative

\* C19 amended: it keeps using_adaptive true in the first such round, and in
\* a later one provided every snapshot in between recorded a probability
\* other than the default.
C19_AdaptiveKeptWhileRecordedNonDefault ==
  \A j \in 2..serviceCacheSize :
    (AbsentSince(j) /\ \A i \in 2..(j - 1) :
                         serviceCache[i]["A"]["x"].probability # DefaultSamplingProbability) =>
      cacheHas(serviceCache[1], "A", "x") /\ serviceCache[1]["A"]["x"].usingAdapative

\* Two rounds of absence, the snapshot in between recorded a non-default
\* probability, and the status was kept
C19_Witness ==
  /\ AbsentSince(3)
  /\ serviceCache[2]["A"]["x"].probability # DefaultSamplingProbability
  /\ serviceCache[1]["A"]["x"].probability # DefaultSamplingProbability
  /\ serviceCache[1]["A"]["x"].usingAdapative


(***************************************************************************)
(* C18.  NewProcessor builds a processor only for a valid config.          *)
(***************************************************************************)
\* NewProcessor has returned a processor
Constructed == newProcessorErr = "nil"

\* C18 as stated: NewProcessor returns a processor only if
\* CalculationInterval < LookbackInterval, both intervals are positive,
\* FollowerLeaseRefreshInterval >= LeaderLeaseRefreshInterval and
\* LookbackQPSCount >= 1, so that a constructed processor has buckets >= 1.
C18_ConstructedOnlyIfValid ==
  Constructed =>
    /\ CalculationInterval < LookbackInterval
    /\ CalculationInterval > 0
    /\ LookbackInterval > 0
    /\ FollowerLeaseRefreshInterval >= LeaderLeaseRefreshInterval
    /\ LookbackQPSCount >= 1
    /\ buckets >= 1

\* C18, what the validation does guarantee: the intervals are non-zero with
\* CalculationInterval <= LookbackInterval, the lease intervals are ordered
\* and LookbackQPSCount >= 1; with positive intervals buckets >= 1.
C18_ConstructedOnlyIfPassesChecks ==
  Constructed =>
    /\ CalculationInterval <= LookbackInterval
    /\ CalculationInterval # 0
    /\ LookbackInterval # 0
    /\ FollowerLeaseRefreshInterval >= LeaderLeaseRefreshInterval
    /\ LookbackQPSCount >= 1
    /\ (CalculationInterval > 0 => buckets >= 1)

\* C18, the failing case: a processor built with negative intervals, its ring
\* capacity below 1
C18_NegativeIntervalsConstructed ==
  /\ Constructed
  /\ CalculationInterval < 0
  /\ buckets < 1

(***************************************************************************)
(* C20.  What the save goroutine writes to the store.                      *)
(***************************************************************************)
\* the save goroutines that are inside InsertProbabilitiesAndQPS
Inserting == {k \in 1..MaxSaves : savePc[k] = "inserting"}

\* C20: every (probabilities, qps) pair a save goroutine passes to
\* InsertProbabilitiesAndQPS is a pair that one calculation tick computed
\* and published together.
C20_SavedPairWasPublished ==
  \A k \in Inserting : saveArgs[k] \in publishedPairs

\* C20, the failing case: the save writes the probabilities the refresh loop
\* loaded from the store, with the qps of the last calculation
C20_SavedLoadedProbabilities ==
  \E k \in Inserting :
    /\ saveArgs[k] \notin publishedPairs
    /\ saveArgs[k].probabilities \in StoredProbabilities
    /\ \E pair \in publishedPairs : pair.qps = saveArgs[k].qps

(***************************************************************************)
(* C15, C16.  Stop.                                                        *)
(***************************************************************************)
LoopsDone == lockPc[Self] = "done" /\ calcPc = "done" /\ updPc = "done"

\* C15: after Stop has been called, at whatever point of the three loops,
\* each of them eventually terminates (calls return).
C15_LoopsTerminateAfterStop == stopped[Self] ~> LoopsDone

\* C15: Stop was called and the three loops have returned
C15_Witness == stopped[Self] /\ LoopsDone

\* C16: once Stop has returned the processor does not change its leader flag,
\* ring, probabilities, qps or strategy responses, starts no new Acquire and
\* issues no InsertProbabilitiesAndQPS.
C16_NothingChangesAfterStop ==
  [][stopped[Self] =>
       /\ leader'[Self] = leader[Self]
       /\ throughputs' = throughputs
       /\ probabilities' = probabilities
       /\ qps' = qps
       /\ strategyResponses' = strategyResponses
       /\ (lockPc'[Self] = "acquiring" => lockPc[Self] = "acquiring")
       /\ \A k \in 1..MaxSaves :
            savePc'[k] = "inserting" => savePc[k] = "inserting"]_vars

(***************************************************************************)
(* C17.  Failover.                                                         *)
(***************************************************************************)
\* the probabilities and qps fields hold a pair a calculation tick assigned
PairPublished == [probabilities |-> probabilities, qps |-> qps] \in publishedPairs

\* C17: with the leader killed, the surviving processor eventually sets its
\* leader flag and keeps it set; from then on a calculation tick whose fetch
\* succeeds publishes probabilities and qps, goes on to start the save, and
\* the save inserts into the store.
C17_SurvivorTakesOver ==
  /\ (lockHolder = Peer) ~> leader[Self]
  /\ [][leader[Self] => leader'[Self]]_vars
  /\ (leader[Self] /\ calcPc = "getThroughput") ~>
       (calcErr \/ (calcPc = "genRead" /\ PairPublished))
  /\ (calcPc = "genRead") ~> (calcPc = "spawnSave")
  /\ \A k \in 1..MaxSaves : (savePc[k] = "start") ~> (savePc[k] = "inserting")

\* C17: the survivor holds the lock, its flag is set, and the save of one of
\* its ticks is writing the pair the tick published
C17_Witness ==
  /\ leader[Self]
  /\ lockHolder = Self
  /\ \E k \in Inserting : saveArgs[k] \in publishedPairs /\ saveArgs[k].qps # EmptyMap

(***************************************************************************)
(* C21.  strategyResponses against the probabilities it is derived from.   *)
(***************************************************************************)
\* no generateStrategyResponses call is between its RLock and its return
NoGenerateInProgress ==
  /\ calcPc \notin {"genRead", "genWrite"}
  /\ updPc \notin {"genRead", "genWrite"}

\* C21: whenever no generateStrategyResponses call is in progress and the
\* current probabilities map has been regenerated from since it was last
\* replaced, strategyResponses is the cache derived from that map.
C21_ResponsesDerivedFromProbabilities ==
  (started /\ NoGenerateInProgress /\ regenerated) =>
    strategyResponses = strategiesOf(probabilities)

\* C21, the failing case: both loops have regenerated and returned, and the
\* responses served are those of a pair the calculation loop published and
\* the refresh loop has since replaced
C21_ServesReplacedRates ==
  /\ started /\ NoGenerateInProgress /\ regenerated
  /\ strategyResponses # strategiesOf(probabilities)
  /\ \E pair \in publishedPairs :
       /\ strategyResponses = strategiesOf(pair.probabilities)
       /\ pair.probabilities # EmptyMap
====
